---- MODULE Spec2Model ----
(***************************************************************************)
(* A model of rdrlatency: the MachineConfig file/unit encoders              *)
(* (machineconfig.py), the latency bundle assembler, the per-cluster writer *)
(* and the three-cluster driver (rdr.py), and the oc runner (ocp.py).       *)
(*                                                                         *)
(* Text is a sequence of one-character strings.  A character outside ASCII  *)
(* is written by its code point name ("U+010D"), one element per character. *)
(***************************************************************************)
EXTENDS Integers, Sequences, FiniteSets, TLC

VARIABLES
    fe,        \* create_file_dict called on its own: [pc, basename, content, target_dir, out]
    heap,      \* the dicts yaml.safe_load and the encoders create, by address
    proc,      \* create_latency_mc_dict: each call's position and locals
    asset,     \* whether systemd/network-latency.service can be read, and its text
    pc,        \* main_setup_rdr: position
    m,         \* main_setup_rdr: locals of main and of the call in progress
    log,       \* records LOGGER has emitted, in order
    files      \* output/<group>-mc.yaml: "absent" or the documents it holds

vars == <<fe, heap, proc, asset, pc, m, log, files>>

\* ------------------------------------------------------------------ bounds

MaxDepth == 2          \* components of a target_dir drawn for create_file_dict
MaxContentLen == 2     \* characters of a content drawn for create_file_dict

\* ------------------------------------------------------------------ text

Front(s) == SubSeq(s, 1, Len(s) - 1)

Last(s) == s[Len(s)]

\* str.startswith
StartsWith(s, p) == Len(p) <= Len(s) /\ SubSeq(s, 1, Len(p)) = p

RECURSIVE Concat(_)
\* "".join(parts)
Concat(parts) == IF parts = <<>> THEN <<>> ELSE Head(parts) \o Concat(Tail(parts))

\* path.split("/"): the texts between the slashes, one more than there are slashes
SplitSlash(s) ==
    LET slashes == {k \in 1..Len(s) : s[k] = "/"}
        \* the j-th slash; the start of s for j = 0 and its end for the one past the last
        At(j) == IF j = 0 THEN 0
                 ELSE IF j > Cardinality(slashes) THEN Len(s) + 1
                 ELSE CHOOSE k \in slashes : Cardinality({i \in slashes : i <= k}) = j
    IN [j \in 1..(Cardinality(slashes) + 1) |-> SubSeq(s, At(j - 1) + 1, At(j) - 1)]

RECURSIVE JoinSlash(_)
\* "/".join(comps)
JoinSlash(comps) ==
    IF comps = <<>> THEN <<>>
    ELSE IF Len(comps) = 1 THEN comps[1]
    ELSE comps[1] \o <<"/">> \o JoinSlash(Tail(comps))

\* s.find(sub) counted from position i: the first index at which sub occurs, 0 if none
Find(s, sub, i) ==
    LET at == {k \in i..(Len(s) - Len(sub) + 1) : SubSeq(s, k, k + Len(sub) - 1) = sub}
    IN IF at = {} THEN 0 ELSE CHOOSE k \in at : \A j \in at : k <= j

\* sub in s, for two strings
Contains(s, sub) == Find(s, sub, 1) # 0

RECURSIVE Replace(_, _, _)
\* s.replace(old, new), old non-empty: non-overlapping occurrences, left to right
Replace(s, old, new) ==
    LET i == Find(s, old, 1) IN
    IF i = 0 THEN s
    ELSE SubSeq(s, 1, i - 1) \o new
         \o Replace(SubSeq(s, i + Len(old), Len(s)), old, new)

\* ------------------------------------------------------------------ os.path

DotDot == <<".", ".">>

\* posixpath.normpath: one leading slash, or exactly two, is kept
InitialSlashes(path) ==
    IF ~StartsWith(path, <<"/">>) THEN 0
    ELSE IF StartsWith(path, <<"/", "/">>) /\ ~StartsWith(path, <<"/", "/", "/">>) THEN 2
    ELSE 1

RECURSIVE NormComps(_, _, _)
NormComps(comps, initial, new) ==
    IF comps = <<>> THEN new
    ELSE LET c == Head(comps) IN
         IF c = <<>> \/ c = <<".">> THEN NormComps(Tail(comps), initial, new)
         ELSE IF \/ c # DotDot
                 \/ (initial = 0 /\ new = <<>>)
                 \/ (new # <<>> /\ Last(new) = DotDot)
              THEN NormComps(Tail(comps), initial, Append(new, c))
         ELSE IF new # <<>> THEN NormComps(Tail(comps), initial, Front(new))
         ELSE NormComps(Tail(comps), initial, new)

normpath(path) ==
    IF path = <<>> THEN <<".">>
    ELSE LET initial == InitialSlashes(path)
             body == JoinSlash(NormComps(SplitSlash(path), initial, <<>>))
             res == [i \in 1..initial |-> "/"] \o body
         IN IF res = <<>> THEN <<".">> ELSE res

\* posixpath.join(a, b)
join(a, b) ==
    IF StartsWith(b, <<"/">>) THEN b
    ELSE IF a = <<>> \/ Last(a) = "/" THEN a \o b
    ELSE a \o <<"/">> \o b

\* ------------------------------------------------------------------ str.encode, base64

AsciiPrintable ==
    << " ","!","U+0022","#","$","%","&","'","(",")","*","+",",","-",".","/",
       "0","1","2","3","4","5","6","7","8","9",":",";","<","=",">","?",
       "@","A","B","C","D","E","F","G","H","I","J","K","L","M","N","O",
       "P","Q","R","S","T","U","V","W","X","Y","Z","[","U+005C","]","^","_",
       "U+0060","a","b","c","d","e","f","g","h","i","j","k","l","m","n","o",
       "p","q","r","s","t","u","v","w","x","y","z","{","|","}","~" >>

\* ord(c)
Ord(c) ==
    IF c = "\n" THEN 10
    ELSE IF c = "U+010D" THEN 269
    ELSE IF c = "U+20AC" THEN 8364
    ELSE IF c = "U+1F600" THEN 128512
    ELSE 31 + CHOOSE i \in 1..Len(AsciiPrintable) : AsciiPrintable[i] = c

\* UTF-8 of one code point
Utf8Char(cp) ==
    IF cp < 128 THEN <<cp>>
    ELSE IF cp < 2048 THEN <<192 + (cp \div 64), 128 + (cp % 64)>>
    ELSE IF cp < 65536
         THEN <<224 + (cp \div 4096), 128 + ((cp \div 64) % 64), 128 + (cp % 64)>>
    ELSE <<240 + (cp \div 262144), 128 + ((cp \div 4096) % 64),
           128 + ((cp \div 64) % 64), 128 + (cp % 64)>>

RECURSIVE encode(_)
\* content.encode(): the UTF-8 bytes of a text, each character's after the last one's
encode(s) ==
    IF s = <<>> THEN <<>>
    ELSE IF Len(s) = 1 THEN Utf8Char(Ord(s[1]))
    ELSE LET h == Len(s) \div 2 IN
         encode(SubSeq(s, 1, h)) \o encode(SubSeq(s, h + 1, Len(s)))

B64Alphabet ==
    << "A","B","C","D","E","F","G","H","I","J","K","L","M","N","O","P",
       "Q","R","S","T","U","V","W","X","Y","Z","a","b","c","d","e","f",
       "g","h","i","j","k","l","m","n","o","p","q","r","s","t","u","v",
       "w","x","y","z","0","1","2","3","4","5","6","7","8","9","+","/" >>

B64Char(n) == B64Alphabet[n + 1]

\* one group of one, two or three bytes
B64Group(bs) ==
    IF Len(bs) = 1
    THEN <<B64Char(bs[1] \div 4), B64Char((bs[1] % 4) * 16), "=", "=">>
    ELSE IF Len(bs) = 2
    THEN <<B64Char(bs[1] \div 4),
           B64Char(((bs[1] % 4) * 16) + (bs[2] \div 16)),
           B64Char((bs[2] % 16) * 4), "=">>
    ELSE <<B64Char(bs[1] \div 4),
           B64Char(((bs[1] % 4) * 16) + (bs[2] \div 16)),
           B64Char(((bs[2] % 16) * 4) + (bs[3] \div 64)),
           B64Char(bs[3] % 64)>>

RECURSIVE b64encode(_)
\* base64.b64encode(bytes).decode(): every three bytes give four characters,
\* the last one or two bytes are padded with "="
b64encode(bs) ==
    IF bs = <<>> THEN <<>>
    ELSE IF Len(bs) <= 3 THEN B64Group(bs)
    ELSE LET h == 3 * (((Len(bs) + 2) \div 3) \div 2) IN
         b64encode(SubSeq(bs, 1, h)) \o b64encode(SubSeq(bs, h + 1, Len(bs)))

\* ------------------------------------------------------------------ machineconfig.py

\* the scalars of FILE_SKEL as the YAML text writes them
FILE_SKEL ==
    [ path |-> <<"T","O","D","O">>,
      source |-> <<"T","O","D","O">>,
      mode |-> <<"0","4","4","4">>,
      user |-> <<"r","o","o","t">>,
      group |-> <<"r","o","o","t">> ]

Digit(c) == CHOOSE d \in 0..9 : AsciiPrintable[17 + d] = c

RECURSIVE ToBase(_, _, _)
ToBase(digits, base, acc) ==
    IF digits = <<>> THEN acc
    ELSE ToBase(Tail(digits), base, (acc * base) + Digit(Head(digits)))

\* yaml.safe_load of an integer scalar (YAML 1.1): a leading 0 makes it octal
YamlInt(text) ==
    IF Len(text) > 1 /\ Head(text) = "0" THEN ToBase(Tail(text), 8, 0)
    ELSE ToBase(text, 10, 0)

\* yaml.safe_load(FILE_SKEL)
LoadFileSkel ==
    [ path |-> FILE_SKEL.path,
      contents |-> [source |-> FILE_SKEL.source],
      mode |-> YamlInt(FILE_SKEL.mode),
      user |-> [name |-> FILE_SKEL.user],
      group |-> [name |-> FILE_SKEL.group] ]

source_prefix ==
    <<"d","a","t","a",":","t","e","x","t","/","p","l","a","i","n",";",
      "c","h","a","r","s","e","t","=","u","t","f","-","8",";",
      "b","a","s","e","6","4",",">>

Etc == <<"/","e","t","c">>

Var == <<"/","v","a","r">>

\* an exception: its class, its message with the f-string field left out, and the field
Raise(type, msg, arg) == [raised |-> TRUE, type |-> type, msg |-> msg, arg |-> arg]

Return(value) == [raised |-> FALSE, value |-> value]

\* the test of line 113 on the normalized target_dir
UnderRoots(target_dir) == StartsWith(target_dir, Etc) \/ StartsWith(target_dir, Var)

\* the path stored at line 117
FilePath(target_dir, basename) == join(target_dir, basename)

\* the content taken one byte per character
ContentBase64Latin1(content) == b64encode([i \in 1..Len(content) |-> Ord(content[i]) % 256])

\* base64.b64encode(content.encode()).decode()
ContentBase64(content) == b64encode(encode(content))

\* the target_dir tested before the basename
create_file_dict_reordered(basename, content, target_dir) ==
    IF ~StartsWith(target_dir, <<"/">>)
    THEN Raise("ValueError", "target_dir shouldn't be relative, use abs. path", target_dir)
    ELSE IF basename = "None" \/ Len(basename) = 0
    THEN Raise("ValueError", "basename should not be empty", <<>>)
    ELSE LET norm_dir == normpath(target_dir) IN
         IF ~UnderRoots(norm_dir)
         THEN Raise("ValueError", "target_dir should not be outside of /etc or /var", norm_dir)
         ELSE Return([LoadFileSkel EXCEPT
                        !.path = FilePath(norm_dir, basename),
                        !.contents.source = source_prefix \o ContentBase64(content)])

\* basename None is written "None"
create_file_dict(basename, content, target_dir) ==
    IF basename = "None" \/ Len(basename) = 0
    THEN Raise("ValueError", "basename should not be empty", <<>>)
    ELSE IF ~StartsWith(target_dir, <<"/">>)
    THEN Raise("ValueError", "target_dir shouldn't be relative, use abs. path", target_dir)
    ELSE LET norm_dir == normpath(target_dir) IN
         IF ~UnderRoots(norm_dir)
         THEN Raise("ValueError", "target_dir should not be outside of /etc or /var", norm_dir)
         ELSE Return([LoadFileSkel EXCEPT
                        !.path = FilePath(norm_dir, basename),
                        !.contents.source = source_prefix \o ContentBase64(content)])

\* ------------------------------------------------------------------ create_file_dict on its own

Components ==
    { <<>>, <<".">>, DotDot, <<"e","t","c">>, <<"v","a","r">>,
      <<"e","t","c","f","o","o">>, <<"v","a","r","i","a","b","l","e">>,
      <<"t","m","p">>, <<"f","o","o">>, <<"l","i","b">> }

CompSeqs == UNION { [1..n -> Components] : n \in 0..MaxDepth }

\* target_dir arguments: up to three leading slashes, then the components
TargetDirs ==
    { [i \in 1..k |-> "/"] \o JoinSlash(cs) : k \in 0..3, cs \in CompSeqs }

Basenames ==
    { "None", <<>>, <<"x">>, DotDot, <<".",".","/","x">>,
      <<".",".","/",".",".","/","t","m","p","/","x">>,
      <<"/","t","m","p","/","x">>, <<"a","/","b">>,
      <<"s","c","h","_","n","e","t","e","m",".","c","o","n","f">> }

ContentChars == {"a", "$", "\n", "U+010D", "U+20AC", "U+1F600"}

Contents == UNION { [1..n -> ContentChars] : n \in 0..MaxContentLen }

\* a few contents to go with every path, a few paths to go with every content
SomeContents == { <<>>, <<"s","c","h","_","n","e","t","e","m">>, <<"$","\n","U+010D">> }

SomePaths ==
    { << <<"x">>, Etc >>, << <<"x">>, <<"/","v","a","r","/","l","i","b">> >>,
      << <<"x">>, <<"/","t","m","p">> >>, << <<>>, Etc >> }

FeIdle == [pc |-> "idle"]

FeOther == heap = <<>> /\ proc = <<>> /\ asset = <<>> /\ pc = "off" /\ m = <<>>
           /\ log = <<>> /\ files = <<>>

FeInit == fe = FeIdle /\ FeOther

FeCall(basename, content, target_dir) ==
    /\ fe' = [pc |-> "done", basename |-> basename, content |-> content,
              target_dir |-> target_dir,
              out |-> create_file_dict(basename, content, target_dir)]
    /\ UNCHANGED <<heap, proc, asset, pc, m, log, files>>

EncodePaths ==
    /\ fe.pc = "idle"
    /\ \E b \in Basenames, t \in TargetDirs, c \in SomeContents : FeCall(b, c, t)

EncodeContents ==
    /\ fe.pc = "idle"
    /\ \E p \in SomePaths, c \in Contents : FeCall(p[1], c, p[2])

FeNext == EncodePaths \/ EncodeContents

SpecFile == FeInit /\ [][FeNext]_vars

\* ------------------------------------------------------------------ integers
\* A Python int is unbounded: it is written as its binary digits, most
\* significant first, without leading zeros (zero is the empty sequence).

RECURSIVE NatBits(_)
NatBits(n) == IF n = 0 THEN <<>> ELSE Append(NatBits(n \div 2), n % 2)

\* 2^k + d, for d < 2^k
Pow2Plus(k, d) ==
    LET low == NatBits(d) IN <<1>> \o [i \in 1..(k - Len(low)) |-> 0] \o low

RECURSIVE StripZeros(_)
StripZeros(bits) ==
    IF bits # <<>> /\ Head(bits) = 0 THEN StripZeros(Tail(bits)) ELSE bits

RECURSIVE Inc(_)
\* bits + 1
Inc(bits) ==
    IF bits = <<>> THEN <<1>>
    ELSE IF Last(bits) = 0 THEN Append(Front(bits), 1)
    ELSE Append(Inc(Front(bits)), 0)

\* significant bits of a float (IEEE 754 binary64)
MantissaBits == 53

\* latency / 2: true division gives the float nearest the quotient, ties to
\* even.  The result is [sig |-> significand bits, exp |-> e], value sig * 2^e.
TrueDivBy2(bits) ==
    IF Len(bits) <= MantissaBits THEN [sig |-> bits, exp |-> 0 - 1]
    ELSE LET kept == SubSeq(bits, 1, MantissaBits)
             rest == SubSeq(bits, MantissaBits + 1, Len(bits))
             sticky == \E i \in 2..Len(rest) : rest[i] = 1
             up == rest[1] = 1 /\ (sticky \/ Last(kept) = 1)
         IN [sig |-> IF up THEN Inc(kept) ELSE kept, exp |-> Len(rest) - 1]

\* int(temp): the float truncated toward zero
IntOfFloat(f) ==
    IF f.exp < 0 THEN SubSeq(f.sig, 1, Len(f.sig) + f.exp)
    ELSE f.sig \o [i \in 1..f.exp |-> 0]

\* lines 31-32: temp = latency / 2; latency = int(temp)
HalfLatency(latency) == IntOfFloat(TrueDivBy2(latency))

\* 2^n mod 10
Pow2ModTen(n) == IF n = 0 THEN 1 ELSE <<2, 4, 8, 6>>[((n - 1) % 4) + 1]

RECURSIVE RemTen(_)
\* bits mod 10
RemTen(bits) ==
    IF bits = <<>> THEN 0
    ELSE IF Len(bits) = 1 THEN bits[1]
    ELSE LET h == Len(bits) \div 2
             right == SubSeq(bits, h + 1, Len(bits))
         IN ((RemTen(SubSeq(bits, 1, h)) * Pow2ModTen(Len(right))) + RemTen(right)) % 10

\* long division by ten: <<quotient bits, remainder>>; a quotient bit is set
\* when twice the remainder so far and the next bit reach ten
DivTen(bits) ==
    << StripZeros([k \in 1..Len(bits) |->
                      IF (2 * RemTen(SubSeq(bits, 1, k - 1))) + bits[k] >= 10 THEN 1 ELSE 0]),
       RemTen(bits) >>

RECURSIVE StrDigits(_)
StrDigits(bits) ==
    IF bits = <<>> THEN <<>>
    ELSE LET qr == DivTen(bits) IN
         Append(StrDigits(qr[1]), AsciiPrintable[17 + qr[2]])

\* str(n) of a non-negative int
Str(bits) == IF bits = <<>> THEN <<"0">> ELSE StrDigits(bits)

\* ------------------------------------------------------------------ machineconfig.py, continued

\* yaml.safe_load(MACHINECONFIG_SKELL)
LoadMachineConfigSkel ==
    [ apiVersion |-> "machineconfiguration.openshift.io/v1",
      kind |-> "MachineConfig",
      name |-> <<"T","O","D","O">>,
      role |-> <<"T","O","D","O">>,
      ignition |-> "3.1.0",
      files |-> <<>>,
      units |-> <<>> ]

\* yaml.safe_load(UNIT_SKEL)
LoadUnitSkel == [name |-> <<"T","O","D","O">>, enabled |-> TRUE, contents |-> <<"T","O","D","O">>]

\* the default of get_new_mc's priority
priority == 99

get_new_mc(role, name_suffix) ==
    [LoadMachineConfigSkel EXCEPT
        !.name = Str(NatBits(priority)) \o <<"-">> \o role \o <<"-">> \o name_suffix,
        !.role = role]

create_unit_dict(name, content) ==
    IF name = "None" \/ Len(name) = 0
    THEN Raise("ValueError", "name of the unit should not be empty", <<>>)
    ELSE Return([LoadUnitSkel EXCEPT !.name = name, !.contents = content])

\* open(SYSTEMD_DIR/unit_filename) fails when the file cannot be read
create_systemdunit_dict(unit_filename, readable, text) ==
    IF ~readable THEN Raise("FileNotFoundError", "No such file or directory", unit_filename)
    ELSE create_unit_dict(unit_filename, text)

\* ------------------------------------------------------------------ rdr.py: create_latency_mc_dict

NetworkLatency == <<"n","e","t","w","o","r","k","-","l","a","t","e","n","c","y">>

SchNetemConf == <<"s","c","h","_","n","e","t","e","m",".","c","o","n","f">>

SchNetem == <<"s","c","h","_","n","e","t","e","m">>

ModulesLoadD == <<"/","e","t","c","/","m","o","d","u","l","e","s","-","l","o","a","d",".","d">>

ScriptName == NetworkLatency \o <<".","s","h">>

ServiceName == NetworkLatency \o <<".","s","e","r","v","i","c","e">>

LATENCY_VALUE == <<"L","A","T","E","N","C","Y","_","V","A","L","U","E">>

EnvironmentFileLine ==
    <<"E","n","v","i","r","o","n","m","e","n","t","F","i","l","e","=","/","e","t","c","/",
      "n","e","t","w","o","r","k","-","s","p","l","i","t",".","e","n","v">>

\* the text of the f-string of lines 41-97 before and after {ip_list}; of the
\* fixed text only the first two lines and the line of the array are written
ScriptHead ==
    <<"#","!","/","b","i","n","/","b","a","s","h","\n">>
    \o <<"#"," ","C","o","p","y","r","i","g","h","t"," ","2","0","2","1"," ",
         "M","a","r","t","i","n"," ","B","u","k","a","t","o","v","i","U+010D","\n">>
    \o <<"d","e","c","l","a","r","e"," ","-","a"," ","i","p","_","l","i","s","t","=","(">>

ScriptTail == <<")","\n","\n">>

network_latency(ip_list) == ScriptHead \o ip_list \o ScriptTail

\* the mode written at line 101
ScriptMode == 356

\* the file systemd/network-latency.service of the package: a unit text with
\* the environment-file directive and the delay placeholder
ServiceTemplate ==
    <<"[","S","e","r","v","i","c","e","]","\n">>
    \o EnvironmentFileLine \o <<"\n">>
    \o <<"E","x","e","c","S","t","a","r","t","=","/","e","t","c","/">> \o ScriptName
    \o <<" ">> \o LATENCY_VALUE \o <<"\n">>

\* one dict per skeleton, loaded once and handed out again
NewAddrShared(h, field) ==
    IF \E a \in 1..Len(h) : field \in DOMAIN h[a]
    THEN CHOOSE a \in 1..Len(h) :
            field \in DOMAIN h[a] /\ \A b \in 1..(a - 1) : field \notin DOMAIN h[b]
    ELSE Len(h) + 1

\* a dict is created at a fresh address: every yaml.safe_load builds a new one
NewAddr(h, field) == Len(h) + 1

Store(h, a, obj) == IF a > Len(h) THEN Append(h, obj) ELSE [h EXCEPT ![a] = obj]

\* the bundle at address a with its file and unit entries in place of their addresses
Deep(h, a) ==
    [h[a] EXCEPT !.files = [i \in DOMAIN h[a].files |-> h[h[a].files[i]]],
                 !.units = [i \in DOMAIN h[a].units |-> h[h[a].units[i]]]]

ProcIdle ==
    [pc |-> "idle", role |-> <<>>, latency |-> <<>>, ip_list |-> <<>>, lat |-> <<>>,
     mcd |-> 0, file_dict |-> 0, script_dict |-> 0, unit_dict |-> 0,
     ret |-> 0, exc |-> Return(<<>>)]

Goto(p, label) == proc' = [proc EXCEPT ![p].pc = label]

AsmOther == fe = FeIdle /\ pc = "off" /\ m = <<>> /\ log = <<>> /\ files = <<>>

AsmFrame == UNCHANGED <<fe, asset, pc, m, log, files>>

\* the call: role, latency and ip_list are bound
Call(p, role, latency, ip_list) ==
    /\ proc[p].pc = "idle"
    /\ proc' = [proc EXCEPT ![p].pc = "L31", ![p].role = role,
                            ![p].latency = latency, ![p].ip_list = ip_list]
    /\ UNCHANGED heap /\ AsmFrame

L31(p) ==
    /\ proc[p].pc = "L31"
    /\ proc' = [proc EXCEPT ![p].pc = "L33", ![p].lat = HalfLatency(proc[p].latency)]
    /\ UNCHANGED heap /\ AsmFrame

L33(p) ==
    /\ proc[p].pc = "L33"
    /\ LET a == NewAddr(heap, "apiVersion") IN
       /\ heap' = Store(heap, a, get_new_mc(proc[p].role, NetworkLatency))
       /\ proc' = [proc EXCEPT ![p].pc = "L36", ![p].mcd = a]
    /\ AsmFrame

\* x = create_file_dict(...), bound to the local named by var
MakeFile(p, var, r, next) ==
    IF r.raised
    THEN /\ proc' = [proc EXCEPT ![p].pc = "raised", ![p].exc = r]
         /\ UNCHANGED heap
    ELSE LET a == NewAddr(heap, "path") IN
         /\ heap' = Store(heap, a, r.value)
         /\ proc' = [proc EXCEPT ![p].pc = next, ![p][var] = a]

L36(p) ==
    /\ proc[p].pc = "L36"
    /\ MakeFile(p, "file_dict", create_file_dict(SchNetemConf, SchNetem, ModulesLoadD), "L39")
    /\ AsmFrame

L39(p) ==
    /\ proc[p].pc = "L39"
    /\ heap' = [heap EXCEPT ![proc[p].mcd].files = Append(@, proc[p].file_dict)]
    /\ Goto(p, "L99")
    /\ AsmFrame

L99(p) ==
    /\ proc[p].pc = "L99"
    /\ MakeFile(p, "script_dict",
                create_file_dict(ScriptName, network_latency(proc[p].ip_list), Etc), "L100")
    /\ AsmFrame

\* the script entry put first
L100Front(p) ==
    /\ proc[p].pc = "L100"
    /\ heap' = [heap EXCEPT ![proc[p].mcd].files = <<proc[p].script_dict>> \o @]
    /\ Goto(p, "L101")
    /\ AsmFrame

L100(p) ==
    /\ proc[p].pc = "L100"
    /\ heap' = [heap EXCEPT ![proc[p].mcd].files = Append(@, proc[p].script_dict)]
    /\ Goto(p, "L101")
    /\ AsmFrame

\* the mode written to the first entry
L101First(p) ==
    /\ proc[p].pc = "L101"
    /\ heap' = [heap EXCEPT ![heap[proc[p].mcd].files[1]].mode = ScriptMode]
    /\ Goto(p, "L103")
    /\ AsmFrame

\* files[1]["mode"] = 356: the second entry of the list
L101(p) ==
    /\ proc[p].pc = "L101"
    /\ LET fs == heap[proc[p].mcd].files IN
       IF Len(fs) < 2
       THEN /\ proc' = [proc EXCEPT ![p].pc = "raised",
                           ![p].exc = Raise("IndexError", "list index out of range", <<>>)]
            /\ UNCHANGED heap
       ELSE /\ heap' = [heap EXCEPT ![fs[2]].mode = ScriptMode]
            /\ Goto(p, "L103")
    /\ AsmFrame

L103(p) ==
    /\ proc[p].pc = "L103"
    /\ \E readable \in BOOLEAN :
         LET r == create_systemdunit_dict(ServiceName, readable, asset) IN
         IF r.raised
         THEN /\ proc' = [proc EXCEPT ![p].pc = "raised", ![p].exc = r]
              /\ UNCHANGED heap
         ELSE LET a == NewAddr(heap, "enabled") IN
              /\ heap' = Store(heap, a, r.value)
              /\ proc' = [proc EXCEPT ![p].pc = "L105", ![p].unit_dict = a]
    /\ AsmFrame

L105(p) ==
    /\ proc[p].pc = "L105"
    /\ heap' = [heap EXCEPT ![proc[p].unit_dict].contents =
                               Replace(@, LATENCY_VALUE, Str(proc[p].lat))]
    /\ Goto(p, "L106")
    /\ AsmFrame

L106(p) ==
    /\ proc[p].pc = "L106"
    /\ heap' = [heap EXCEPT ![proc[p].unit_dict].contents =
                               Replace(@, EnvironmentFileLine, <<>>)]
    /\ Goto(p, "L109")
    /\ AsmFrame

L109(p) ==
    /\ proc[p].pc = "L109"
    /\ heap' = [heap EXCEPT ![proc[p].mcd].units = Append(@, proc[p].unit_dict)]
    /\ Goto(p, "L111")
    /\ AsmFrame

\* return mcd
L111(p) ==
    /\ proc[p].pc = "L111"
    /\ proc' = [proc EXCEPT ![p].pc = "returned", ![p].ret = proc[p].mcd]
    /\ UNCHANGED heap /\ AsmFrame

\* the caller changes the bundle it was given: a mode, or one more entry
CallerEdits(p) ==
    /\ proc[p].pc = "returned"
    /\ LET b == proc[p].ret IN
       \/ heap' = [heap EXCEPT ![heap[b].files[1]].mode = 0]
       \/ heap' = [heap EXCEPT ![b].files = Append(@, heap[b].files[1])]
       \/ heap' = [heap EXCEPT ![b].units = <<>>]
    /\ Goto(p, "edited")
    /\ AsmFrame

Step(p) ==
    \/ L31(p) \/ L33(p) \/ L36(p) \/ L39(p) \/ L99(p) \/ L100(p) \/ L101(p)
    \/ L103(p) \/ L105(p) \/ L106(p) \/ L109(p) \/ L111(p)

\* the whole call, run on its own
create_latency_mc_dict(role, latency, ip_list, readable, text) ==
    LET lat == HalfLatency(latency)
        mcd == get_new_mc(role, NetworkLatency)
        f == create_file_dict(SchNetemConf, SchNetem, ModulesLoadD)
        s == create_file_dict(ScriptName, network_latency(ip_list), Etc)
        u == create_systemdunit_dict(ServiceName, readable, text)
    IN IF f.raised THEN f
       ELSE IF s.raised THEN s
       ELSE IF u.raised THEN u
       ELSE Return([mcd EXCEPT
                !.files = <<f.value, [s.value EXCEPT !.mode = ScriptMode]>>,
                !.units = <<[u.value EXCEPT !.contents =
                                Replace(Replace(@, LATENCY_VALUE, Str(lat)),
                                        EnvironmentFileLine, <<>>)]>>])

Master == <<"m","a","s","t","e","r">>

Worker == <<"w","o","r","k","e","r">>

\* "'" + address + "' " of get_ip_address
Quoted(address) == <<"'">> \o address \o <<"'", " ">>

Ip1 == <<"1","0",".","0",".","0",".","1">>

Ip2 == <<"1","0",".","0",".","0",".","2">>

Roles == {Master, Worker, <<"i","n","f","r","a">>}

\* latency arguments: small ones, and ones beyond the float's 53 bits
Latencies ==
    {NatBits(n) : n \in {0, 1, 2, 3, 40, 100, 101}}
    \cup {Pow2Plus(52, d) : d \in 0..3}
    \cup {Pow2Plus(53, d) : d \in 0..3}
    \cup {Pow2Plus(54, d) : d \in 0..3}

IpLists == {<<>>, Quoted(Ip1), Quoted(Ip1) \o Quoted(Ip2), Quoted(Ip2) \o Quoted(Ip2)}

AsmInit ==
    /\ heap = <<>>
    /\ proc = [p \in {1} |-> ProcIdle]
    /\ asset = ServiceTemplate
    /\ AsmOther

CallAny(p) == \E r \in Roles, l \in Latencies, i \in IpLists : Call(p, r, l, i)

AsmNext == \E p \in DOMAIN proc : CallAny(p) \/ Step(p) \/ CallerEdits(p)

SpecAsm == AsmInit /\ [][AsmNext]_vars

\* two calls at once, their statements interleaved
ConcInit ==
    /\ heap = <<>>
    /\ proc = [p \in {1, 2} |-> ProcIdle]
    /\ asset = ServiceTemplate
    /\ AsmOther

CallSome(p) == \E r \in {Master, Worker} : Call(p, r, NatBits(101), Quoted(Ip1))

ConcNext == \E p \in DOMAIN proc : CallSome(p) \/ Step(p) \/ CallerEdits(p)

SpecConc == ConcInit /\ [][ConcNext]_vars

\* ------------------------------------------------------------------ ocp.py: run_oc

\* one LOGGER.log call: the logger, the level, the format and its argument
LogRecord(logger, level, msg, arg) ==
    [logger |-> logger, level |-> level, msg |-> msg, arg |-> arg]

\* lines 52-54: the level the output is logged at
proc_log_level(returncode) == IF returncode > 0 THEN "WARNING" ELSE "DEBUG"

\* lines 45-48: the command line
oc_cmd(cmd_list, kubeconfig) ==
    <<"oc">> \o (IF kubeconfig # "None" THEN <<"--kubeconfig", kubeconfig>> ELSE <<>>)
    \o cmd_list

\* comp_proc.check_returncode()
check_returncode(returncode) == returncode # 0

\* ------------------------------------------------------------------ rdr.py: get_ip_address

ExternalIP == <<"E","x","t","e","r","n","a","l","I","P">>

InternalIP == <<"I","n","t","e","r","n","a","l","I","P">>

Hostname == <<"H","o","s","t","n","a","m","e">>

\* line 121: type not in ("ExternalIP") tests the type against a string
Skipped(type) == ~Contains(ExternalIP, type)

RECURSIVE AddrsOf(_, _)
\* the inner loop over one node's addresses
AddrsOf(addresses, ip_addrs) ==
    IF addresses = <<>> THEN ip_addrs
    ELSE AddrsOf(Tail(addresses),
                 IF Skipped(Head(addresses).type) THEN ip_addrs
                 ELSE ip_addrs \o <<"'">> \o Head(addresses).address \o <<"'", " ">>)

RECURSIVE NodesOf(_, _)
\* the outer loop over node_dict["items"]
NodesOf(items, ip_addrs) ==
    IF items = <<>> THEN ip_addrs
    ELSE NodesOf(Tail(items), AddrsOf(Head(items), ip_addrs))

\* the loops of get_ip_address over the parsed document
ip_addrs_of(node_dict) == NodesOf(node_dict, <<>>)

\* ------------------------------------------------------------------ rdr.py: generate_mc_files, main_setup_rdr

Groups == <<"hub", "c1", "c2">>

\* the arguments of the three generate_mc_files calls: c1 + c2, hub + c2, hub + c1
PeersOf(g, ips) ==
    IF g = 1 THEN ips[2] \o ips[3]
    ELSE IF g = 2 THEN ips[1] \o ips[3]
    ELSE ips[1] \o ips[2]

RoleLoop == <<Master, Worker>>

\* open(file_path, "a")
OpenForAppend(f) == [exists |-> TRUE, docs |-> f.docs]

\* open(file_path, "w"): the file is created, or emptied
OpenForWrite(f) == [exists |-> TRUE, docs |-> <<>>]

\* yaml.dump_all(mc_spec, outfile): the documents follow what the file holds
DumpAll(f, mc_spec) == [f EXCEPT !.docs = @ \o mc_spec]

\* the address a of cluster i
Addr(i, a) == <<"1","0",".", AsciiPrintable[17 + i], ".", a>>

Entry(type, address) == [type |-> type, address |-> address]

\* what oc get nodes -o yaml can say of cluster i: the nodes, each the list of
\* its status.addresses.  stdout is written as the document it parses to.
NodeDocs(i) ==
    { << <<Entry(InternalIP, Addr(i, "7")), Entry(ExternalIP, Addr(i, "1"))>>,
         <<Entry(Hostname, <<"n">>), Entry(ExternalIP, Addr(i, "2"))>> >>,
      << <<Entry(ExternalIP, Addr(i, "2"))>>,
         <<Entry(ExternalIP, Addr(i, "1")), Entry(ExternalIP, Addr(i, "2"))>> >>,
      << <<Entry(<<"I","P">>, Addr(i, "9")), Entry(ExternalIP, Addr(i, "1"))>> >> }

ReturnCodes == {0, 1, 0 - 9}

Absent == [exists |-> FALSE, docs |-> <<>>]

\* a file left by an earlier run
Stale == [exists |-> TRUE, docs |-> <<get_new_mc(Master, <<"o","l","d">>)>>]

MainOther == fe = FeIdle /\ heap = <<>> /\ proc = <<>>

MainFrame == UNCHANGED <<fe, heap, proc, asset>>

MainInit ==
    /\ pc = "oc_exec"
    /\ \E d1 \in NodeDocs(1), d2 \in NodeDocs(2), d3 \in NodeDocs(3),
          l \in {NatBits(101)} :
         m = [ latency |-> l, cluster |-> <<d1, d2, d3>>,
               i |-> 1, returncode |-> 0, stdout |-> <<>>, stderr |-> <<>>,
               ips |-> <<>>, g |-> 1, r |-> 1, mc_spec |-> <<>>,
               before |-> Absent, exc |-> Return(<<>>) ]
    /\ log = <<>>
    /\ \E f \in {Absent, Stale} : files = [g \in 1..3 |-> f]
    /\ asset = ServiceTemplate
    /\ MainOther

Kubeconfig(i) == Groups[i]

\* lines 49-50: the command is announced and run; it ends with a status, or
\* subprocess.run gives up on it
OcExec ==
    /\ pc = "oc_exec"
    /\ LET cmd == oc_cmd(<<"get", "nodes", "-o", "yaml">>, Kubeconfig(m.i))
           announced == Append(log, LogRecord("ocp", "INFO", "going to execute %s", cmd))
       IN \/ \E rc \in ReturnCodes, err \in {<<>>, <<"E">>} :
               /\ m' = [m EXCEPT !.returncode = rc,
                                 !.stdout = IF rc = 0 THEN m.cluster[m.i] ELSE <<>>,
                                 !.stderr = err]
               /\ log' = announced
               /\ pc' = "oc_log"
          \/ /\ m' = [m EXCEPT !.exc = Raise("TimeoutExpired", "timed out", cmd)]
             /\ log' = announced
             /\ pc' = "failed"
    /\ UNCHANGED files /\ MainFrame

\* lines 52-57
OcLog ==
    /\ pc = "oc_log"
    /\ LET level == proc_log_level(m.returncode) IN
       log' = log \o << LogRecord("ocp", level, "oc stdout: %s", m.stdout),
                        LogRecord("ocp", level, "oc stderr: %s", m.stderr),
                        LogRecord("ocp", level, "oc return code: %d", m.returncode) >>
    /\ pc' = "oc_check"
    /\ UNCHANGED <<m, files>> /\ MainFrame

\* lines 59-63, and the rest of get_ip_address with the output returned
OcCheck ==
    /\ pc = "oc_check"
    /\ IF check_returncode(m.returncode)
       THEN /\ m' = [m EXCEPT !.exc = Raise("CalledProcessError", "non-zero exit status",
                                            m.returncode)]
            /\ pc' = "failed"
       ELSE /\ m' = [m EXCEPT !.ips = Append(@, ip_addrs_of(m.stdout)),
                              !.i = IF m.i < 3 THEN m.i + 1 ELSE m.i]
            /\ pc' = IF m.i < 3 THEN "oc_exec" ELSE "gen_start"
    /\ UNCHANGED <<log, files>> /\ MainFrame

\* logging.info of main, then lines 137-140
GenStart ==
    /\ pc = "gen_start"
    /\ log' = Append(log, LogRecord("root", "INFO", "Generating MachineConfigs for",
                                    Groups[m.g]))
    /\ m' = [m EXCEPT !.mc_spec = <<>>, !.r = 1, !.before = files[m.g]]
    /\ pc' = "gen_role"
    /\ UNCHANGED files /\ MainFrame

\* lines 141-142: one turn of the loop
GenRole ==
    /\ pc = "gen_role"
    /\ \E readable \in BOOLEAN :
         LET res == create_latency_mc_dict(RoleLoop[m.r], m.latency,
                                           PeersOf(m.g, m.ips), readable, asset)
         IN IF res.raised
            THEN /\ m' = [m EXCEPT !.exc = res]
                 /\ pc' = "failed"
            ELSE /\ m' = [m EXCEPT !.mc_spec = Append(@, res.value),
                                   !.r = IF m.r < Len(RoleLoop) THEN m.r + 1 ELSE m.r]
                 /\ pc' = IF m.r < Len(RoleLoop) THEN "gen_role" ELSE "gen_open"
    /\ UNCHANGED <<log, files>> /\ MainFrame

\* line 143
GenOpen ==
    /\ pc = "gen_open"
    /\ files' = [files EXCEPT ![m.g] = OpenForWrite(@)]
    /\ pc' = "gen_dump"
    /\ UNCHANGED <<m, log>> /\ MainFrame

\* line 144, and the file closed
GenDump ==
    /\ pc = "gen_dump"
    /\ files' = [files EXCEPT ![m.g] = DumpAll(@, m.mc_spec)]
    /\ pc' = "gen_ret"
    /\ UNCHANGED <<m, log>> /\ MainFrame

\* generate_mc_files returns to main
GenRet ==
    /\ pc = "gen_ret"
    /\ IF m.g < 3
       THEN /\ m' = [m EXCEPT !.g = m.g + 1]
            /\ pc' = "gen_start"
       ELSE /\ UNCHANGED m
            /\ pc' = "done"
    /\ UNCHANGED <<log, files>> /\ MainFrame

MainNext ==
    \/ OcExec \/ OcLog \/ OcCheck
    \/ GenStart \/ GenRole \/ GenOpen \/ GenDump \/ GenRet

SpecMain == MainInit /\ [][MainNext]_vars

\* ------------------------------------------------------------------ properties

\* path is root itself or lies below it
InsideDir(path, root) == path = root \/ StartsWith(path, root \o <<"/">>)

IsEmptyBasename(b) == b = "None" \/ b = <<>>

IsRelative(t) == t = <<>> \/ t[1] # "/"

MsgEmpty == "basename should not be empty"

MsgRelative == "target_dir shouldn't be relative, use abs. path"

MsgOutside == "target_dir should not be outside of /etc or /var"

\* C1: every entry create_file_dict returns has a path that, normalized, lies
\* inside /etc or inside /var; every other basename and target_dir is refused.
C1_PathInsideRoots ==
    (fe.pc = "done" /\ ~fe.out.raised) =>
        LET n == normpath(fe.out.value.path) IN InsideDir(n, Etc) \/ InsideDir(n, Var)

\* what create_file_dict does ensure: the normalized target_dir starts with the
\* characters /etc or /var, and the path is target_dir joined with the basename
FileDirHasRootPrefix ==
    (fe.pc = "done" /\ ~fe.out.raised) =>
        /\ UnderRoots(normpath(fe.target_dir))
        /\ fe.out.value.path = join(normpath(fe.target_dir), fe.basename)

\* C2: the checks come in the order basename, absolute target_dir, roots, and
\* the first that fails is the one reported; /tmp is refused; /etc/foo and
\* /var/lib are accepted with any non-empty basename.
C2_ChecksInOrder ==
    fe.pc = "done" =>
        LET b == fe.basename
            t == fe.target_dir
            o == fe.out
        IN /\ IsEmptyBasename(b) =>
                o.raised /\ o.type = "ValueError" /\ o.msg = MsgEmpty
           /\ (~IsEmptyBasename(b) /\ IsRelative(t)) =>
                o.raised /\ o.type = "ValueError" /\ o.msg = MsgRelative
           /\ (~IsEmptyBasename(b) /\ ~IsRelative(t)) =>
                IF StartsWith(normpath(t), Etc) \/ StartsWith(normpath(t), Var)
                THEN ~o.raised
                ELSE o.raised /\ o.type = "ValueError" /\ o.msg = MsgOutside
           /\ t = <<"/","t","m","p">> => o.raised
           /\ ( /\ t \in {<<"/","e","t","c","/","f","o","o">>, <<"/","v","a","r","/","l","i","b">>}
                /\ ~IsEmptyBasename(b) ) => ~o.raised

\* an empty basename with a relative target_dir outside the roots: the basename is reported
C2_Witness ==
    /\ fe.pc = "done"
    /\ fe.basename # "None"
    /\ fe.basename = <<>>
    /\ fe.target_dir = <<"t","m","p">>
    /\ fe.out.raised
    /\ fe.out.msg = MsgEmpty

B64Index(c) == CHOOSE n \in 0..63 : B64Alphabet[n + 1] = c

\* one group of four characters
B64Ungroup(cs) ==
    LET a == B64Index(cs[1])
        b == B64Index(cs[2])
    IN IF cs[3] = "=" THEN <<(a * 4) + (b \div 16)>>
       ELSE IF cs[4] = "="
       THEN <<(a * 4) + (b \div 16), ((b % 16) * 16) + (B64Index(cs[3]) \div 4)>>
       ELSE <<(a * 4) + (b \div 16),
              ((b % 16) * 16) + (B64Index(cs[3]) \div 4),
              ((B64Index(cs[3]) % 4) * 64) + B64Index(cs[4])>>

RECURSIVE b64decode(_)
\* base64 decoding: four characters to three bytes, fewer before "="
b64decode(cs) ==
    IF Len(cs) < 4 THEN <<>>
    ELSE IF Len(cs) < 8 THEN B64Ungroup(cs)
    ELSE LET h == 4 * ((Len(cs) \div 4) \div 2) IN
         b64decode(SubSeq(cs, 1, h)) \o b64decode(SubSeq(cs, h + 1, Len(cs)))

AllChars ==
    {AsciiPrintable[i] : i \in 1..Len(AsciiPrintable)}
    \cup {"\n", "U+010D", "U+20AC", "U+1F600"}

Chr(cp) == CHOOSE c \in AllChars : Ord(c) = cp

\* the character of one UTF-8 sequence
DecodeOne(bs) ==
    IF bs[1] < 128 THEN Chr(bs[1])
    ELSE IF bs[1] < 224 THEN Chr(((bs[1] - 192) * 64) + (bs[2] - 128))
    ELSE IF bs[1] < 240
    THEN Chr(((bs[1] - 224) * 4096) + ((bs[2] - 128) * 64) + (bs[3] - 128))
    ELSE Chr(((bs[1] - 240) * 262144) + ((bs[2] - 128) * 4096)
             + ((bs[3] - 128) * 64) + (bs[4] - 128))

Dist(a, b) == IF a < b THEN b - a ELSE a - b

RECURSIVE decode(_)
\* bytes.decode(): the text of UTF-8 bytes, cut where a character starts
decode(bs) ==
    LET starts == {k \in 2..Len(bs) : bs[k] < 128 \/ bs[k] >= 192} IN
    IF bs = <<>> THEN <<>>
    ELSE IF starts = {} THEN <<DecodeOne(bs)>>
    ELSE LET mid == (Len(bs) \div 2) + 1
             cut == CHOOSE k \in starts : \A j \in starts : Dist(k, mid) <= Dist(j, mid)
         IN decode(SubSeq(bs, 1, cut - 1)) \o decode(SubSeq(bs, cut, Len(bs)))

\* source is the data-URL prefix and a base64 payload that decodes to content
RoundTrips(source, content) ==
    LET payload == SubSeq(source, Len(source_prefix) + 1, Len(source)) IN
    /\ StartsWith(source, source_prefix)
    /\ Len(payload) % 4 = 0
    /\ b64decode(payload) = encode(content)
    /\ decode(b64decode(payload)) = content

\* C6: contents.source of a returned entry is the prefix
\* data:text/plain;charset=utf-8;base64, and a payload whose base64 decoding
\* is the content, byte for byte.
C6_RoundTrip ==
    (fe.pc = "done" /\ ~fe.out.raised) =>
        RoundTrips(fe.out.value.contents.source, fe.content)

\* a content of a shell metacharacter, a line break and a two-byte character
C6_Witness ==
    /\ fe.pc = "done"
    /\ ~fe.out.raised
    /\ fe.content = <<"$", "\n", "U+010D">>
    /\ Len(fe.out.value.contents.source) = Len(source_prefix) + 8

Returned(p) == proc[p].pc = "returned"

\* C3: a returned bundle is named 99-<role>-network-latency, carries the role,
\* and holds two files, /etc/modules-load.d/sch_netem.conf then
\* /etc/network-latency.sh, and one unit; a call that raises returns nothing.
C3_BundleShape ==
    \A p \in DOMAIN proc :
        /\ Returned(p) =>
             LET b == Deep(heap, proc[p].ret) IN
             /\ b.name = <<"9","9","-">> \o proc[p].role
                         \o <<"-","n","e","t","w","o","r","k","-","l","a","t","e","n","c","y">>
             /\ b.role = proc[p].role
             /\ Len(b.files) = 2
             /\ Len(b.units) = 1
             /\ b.files[1].path = <<"/","e","t","c","/","m","o","d","u","l","e","s","-",
                                    "l","o","a","d",".","d","/","s","c","h","_","n","e",
                                    "t","e","m",".","c","o","n","f">>
             /\ b.files[2].path = <<"/","e","t","c","/","n","e","t","w","o","r","k","-",
                                    "l","a","t","e","n","c","y",".","s","h">>
        /\ proc[p].pc = "raised" => proc[p].ret = 0
        /\ proc[p].ret # 0 => proc[p].pc \in {"returned", "edited"}

\* the bundle of role worker, latency 40 and two peers is returned
C3_Witness ==
    \E p \in DOMAIN proc :
        /\ Returned(p)
        /\ proc[p].role = Worker
        /\ proc[p].latency = NatBits(40)
        /\ proc[p].ip_list = Quoted(Ip1) \o Quoted(Ip2)
        /\ Len(heap[proc[p].ret].files) = 2

\* floor(n / 2): the binary digits of n without the last
FloorHalf(n) == IF n = <<>> THEN <<>> ELSE Front(n)

\* C4: for every latency >= 0 the delay put in place of LATENCY_VALUE in the
\* unit is floor(latency / 2), and the unit then holds neither LATENCY_VALUE
\* nor EnvironmentFile=/etc/network-split.env.
C4_DelayIsFloorHalf ==
    \A p \in DOMAIN proc :
        Returned(p) =>
            LET c == heap[proc[p].unit_dict].contents IN
            /\ proc[p].lat = FloorHalf(proc[p].latency)
            /\ c = Replace(Replace(asset, LATENCY_VALUE, Str(FloorHalf(proc[p].latency))),
                           EnvironmentFileLine, <<>>)
            /\ ~Contains(c, LATENCY_VALUE)
            /\ ~Contains(c, EnvironmentFileLine)

\* the same, for the latencies a float holds exactly
DelayIsFloorHalfWithin53Bits ==
    \A p \in DOMAIN proc :
        (Returned(p) /\ Len(proc[p].latency) <= MantissaBits) =>
            LET c == heap[proc[p].unit_dict].contents IN
            /\ proc[p].lat = FloorHalf(proc[p].latency)
            /\ c = Replace(Replace(asset, LATENCY_VALUE, Str(proc[p].lat)),
                           EnvironmentFileLine, <<>>)
            /\ ~Contains(c, LATENCY_VALUE)
            /\ ~Contains(c, EnvironmentFileLine)

\* 40 -> 20, 100 -> 50, 101 -> 50, 1 -> 0, 0 -> 0, as the unit text shows them
DelayExamples ==
    \A p \in DOMAIN proc :
        Returned(p) =>
            LET c == heap[proc[p].unit_dict].contents IN
            /\ proc[p].latency = NatBits(40) => Contains(c, <<".","s","h"," ","2","0","\n">>)
            /\ proc[p].latency = NatBits(100) => Contains(c, <<".","s","h"," ","5","0","\n">>)
            /\ proc[p].latency = NatBits(101) => Contains(c, <<".","s","h"," ","5","0","\n">>)
            /\ proc[p].latency = NatBits(1) => Contains(c, <<".","s","h"," ","0","\n">>)
            /\ proc[p].latency = NatBits(0) => Contains(c, <<".","s","h"," ","0","\n">>)

\* C5: in a returned bundle the script entry has mode 356 (octal 544, the owner
\* may execute); the module entry keeps mode 292 (octal 444); path,
\* contents.source, user.name and group.name of both are those of
\* create_file_dict.
C5_ScriptModeOnly ==
    \A p \in DOMAIN proc :
        Returned(p) =>
            LET b == Deep(heap, proc[p].ret)
                f0 == create_file_dict(SchNetemConf, SchNetem, ModulesLoadD).value
                f1 == create_file_dict(ScriptName, network_latency(proc[p].ip_list), Etc).value
            IN /\ b.files[2].mode = 356
               /\ b.files[2].mode = ToBase(<<"5","4","4">>, 8, 0)
               /\ (b.files[2].mode \div 64) % 2 = 1
               /\ b.files[1].mode = 292
               /\ b.files[1].mode = ToBase(<<"4","4","4">>, 8, 0)
               /\ b.files[1] = f0
               /\ b.files[2] = [f1 EXCEPT !.mode = 356]
               /\ \A i \in 1..2 :
                    /\ b.files[i].user.name = <<"r","o","o","t">>
                    /\ b.files[i].group.name = <<"r","o","o","t">>

\* a returned bundle whose two entries differ in mode
C5_Witness ==
    \E p \in DOMAIN proc :
        /\ Returned(p)
        /\ proc[p].ip_list = Quoted(Ip1)
        /\ heap[heap[proc[p].ret].files[1]].mode # heap[heap[proc[p].ret].files[2]].mode

\* the script entry of a returned bundle decodes to the script
ScriptRoundTrips ==
    \A p \in DOMAIN proc :
        Returned(p) =>
            RoundTrips(Deep(heap, proc[p].ret).files[2].contents.source,
                       network_latency(proc[p].ip_list))

\* C7: calls share nothing: whatever the interleaving of two calls, and
\* whatever the caller of the other has done to the bundle it was given, a
\* call returns the bundle it returns when run alone.
C7_CallsIndependent ==
    \A p \in DOMAIN proc :
        Returned(p) =>
            Return(Deep(heap, proc[p].ret))
                = create_latency_mc_dict(proc[p].role, proc[p].latency, proc[p].ip_list,
                                         TRUE, asset)

\* the master bundle has been edited by its caller and the worker bundle is returned
C7_Witness ==
    /\ DOMAIN proc = {1, 2}
    /\ proc[1].pc = "edited"
    /\ proc[1].role = Master
    /\ proc[2].pc = "returned"
    /\ proc[2].role = Worker
    /\ proc[2].ret < proc[1].ret

\* the documents a generate_mc_files call is to write
Assembled(g) ==
    [r \in 1..2 |->
        create_latency_mc_dict(RoleLoop[r], m.latency, PeersOf(g, m.ips), TRUE, asset).value]

C9_FailureLoggedAsWarning ==
    /\ pc = "oc_check" =>
         LET n == Len(log)
             level == IF m.returncode # 0 THEN "WARNING" ELSE "DEBUG"
         IN /\ n >= 3
            /\ log[n - 2] = LogRecord("ocp", level, "oc stdout: %s", m.stdout)
            /\ log[n - 1] = LogRecord("ocp", level, "oc stderr: %s", m.stderr)
            /\ log[n] = LogRecord("ocp", level, "oc return code: %d", m.returncode)
    /\ (pc = "failed" /\ m.exc.type = "CalledProcessError") =>
         /\ m.returncode # 0
         /\ Len(m.ips) = m.i - 1

\* what run_oc does: WARNING for a positive status only
OcLoggedAsCoded ==
    /\ pc = "oc_check" =>
         LET n == Len(log)
             level == IF m.returncode > 0 THEN "WARNING" ELSE "DEBUG"
         IN /\ n >= 3
            /\ log[n - 2] = LogRecord("ocp", level, "oc stdout: %s", m.stdout)
            /\ log[n - 1] = LogRecord("ocp", level, "oc stderr: %s", m.stderr)
            /\ log[n] = LogRecord("ocp", level, "oc return code: %d", m.returncode)
    /\ (pc = "failed" /\ m.exc.type = "CalledProcessError") =>
         /\ m.returncode # 0
         /\ Len(m.ips) = m.i - 1
    /\ pc \in {"gen_start", "gen_role", "gen_open", "gen_dump", "gen_ret", "done"} =>
         Len(m.ips) = 3

RECURSIVE QuoteAll(_)
QuoteAll(entries) ==
    IF entries = <<>> THEN <<>>
    ELSE Quoted(Head(entries).address) \o QuoteAll(Tail(entries))

\* the entries of a document in order, those for which Keep(type) holds
Kept(doc, Keep(_)) == SelectSeq(Concat(doc), LAMBDA e : Keep(e.type))

IsExternalIP(type) == type = ExternalIP

InExternalIP(type) == Contains(ExternalIP, type)

\* the peers of group g: the kept addresses of the other two clusters, in order
PeerText(g, Keep(_)) ==
    LET others == IF g = 1 THEN <<2, 3>> ELSE IF g = 2 THEN <<1, 3>> ELSE <<1, 2>> IN
    QuoteAll(Kept(m.cluster[others[1]], Keep)) \o QuoteAll(Kept(m.cluster[others[2]], Keep))

\* the group's file holds two bundles whose script carries the peer text
HoldsPeers(g, text) ==
    /\ files[g].exists
    /\ Len(files[g].docs) = 2
    /\ \A r \in 1..2 :
         /\ Len(files[g].docs[r].files) = 2
         /\ files[g].docs[r].files[2].contents.source
              = source_prefix \o b64encode(encode(network_latency(text)))

\* the peer text names no address of cluster i
NoneOf(i, text) ==
    \A e \in {Concat(m.cluster[i])[k] : k \in 1..Len(Concat(m.cluster[i]))} :
        ~Contains(text, e.address)

\* C10: each cluster's bundles carry the ExternalIP addresses of the other two
\* clusters, quoted, in order, duplicates kept, no address of another type and
\* none of its own; the files are written hub, c1, c2, and a failure for a
\* later cluster leaves the earlier files written.
C10_PeersAreOthersExternalIPs ==
    /\ pc = "gen_ret" =>
         /\ HoldsPeers(m.g, PeerText(m.g, IsExternalIP))
         /\ NoneOf(m.g, PeerText(m.g, IsExternalIP))
    /\ pc \in {"gen_start", "gen_role", "gen_open", "gen_dump", "gen_ret", "failed", "done"} =>
         \A g \in 1..(m.g - 1) : HoldsPeers(g, PeerText(g, IsExternalIP))

\* what get_ip_address does: an address is kept when its type occurs in "ExternalIP"
PeersAsCoded ==
    /\ pc = "gen_ret" =>
         /\ HoldsPeers(m.g, PeerText(m.g, InExternalIP))
         /\ NoneOf(m.g, PeerText(m.g, InExternalIP))
    /\ pc \in {"gen_start", "gen_role", "gen_open", "gen_dump", "gen_ret", "failed", "done"} =>
         \A g \in 1..(m.g - 1) : HoldsPeers(g, PeerText(g, InExternalIP))

====
